---- MODULE Spec2Model ----
(***************************************************************************)
(* A model of pyglove's symbolic Object (pyglove/core/symbolic/object.py). *)
(*                                                                         *)
(* Spec      : a tree of three symbolic objects,                           *)
(*               Top(child=Mid(child=Point(x, y)), x),                     *)
(*             mutated by attribute assignment, rebind and seal.           *)
(* CtorSpec  : one call of a class's constructor or of its from_json, on   *)
(*             arguments drawn from bounded sets, followed by sym_jsonify  *)
(*             of the object built and from_json of the mapping.           *)
(* AttachSpec: two trees, Top(Mid(Point)) and Mid(Point), whose objects    *)
(*             are moved between parents by rebinding the child fields.    *)
(* SchemaSpec: one class statement, class C(bases) decorated with          *)
(*             members(fields), on bases and fields drawn from bounded     *)
(*             sets.                                                       *)
(*                                                                         *)
(* The attribute store (pg_dict.Dict), base.Symbolic and pg_typing are not *)
(* part of object.py; the operators that stand for them are written from   *)
(* the design document and say so where they are defined.                  *)
(***************************************************************************)
EXTENDS Integers, Sequences, FiniteSets, TLC

VARIABLES
  sym_attributes,  \* node -> (field key -> value): each object's _sym_attributes
  sealed,          \* node -> BOOLEAN: the object's own _sealed flag
  store_sealed,    \* node -> BOOLEAN: the sealed flag of the object's store
  sym_parent,      \* node -> node or NoNode: the parent back-reference
  sym_path,        \* node -> sequence of keys: position in the tree
  last,            \* the last call made on the tree and its outcome
  ctor,            \* a constructor / from_json call: its arguments and results
  decl             \* a class statement: its bases, its fields, its schema

tree == <<sym_attributes, sealed, store_sealed, sym_parent, sym_path, last>>
vars == <<sym_attributes, sealed, store_sealed, sym_parent, sym_path, last, ctor,
          decl>>

(***************************************************************************)
(* Bounds.                                                                 *)
(***************************************************************************)
\* Int fields are declared Int(min_value=0, max_value=MaxVal, default=0).
MaxVal == 1
\* A rebind call carries between one and MaxBatch path->value pairs.
MaxBatch == 2
\* A constructor call carries at most MaxArgs positional arguments
MaxArgs == 2
\* and at most MaxKw keyword arguments.
MaxKw == 2
\* A class statement names at most MaxBases base classes
MaxBases == 2
\* and its members() decorator declares at most MaxFields fields.
MaxFields == 2

(***************************************************************************)
(* The classes of the tree and the objects built from them.                *)
(***************************************************************************)
Nodes == {1, 2, 3}
NoNode == 0

\* The concrete class of each object: Top(child=Mid(child=Point())), and a
\* second Mid (4) and Point (5) for the second tree.
ClassOf(n) == CASE n = 1 -> "Top" [] n = 2 -> "Mid" [] n = 4 -> "Mid" [] OTHER -> "Point"

\* cls.schema.fields, in declaration order.  Besides the classes of the tree:
\*   Point: x, y: Int with default 0
\*   Pair : x, y: Int, required (no default)
\*   Vec  : x: Int with default 0, rest: List(Int) with default [],
\*          declared with init_arg_list=['x', '*rest']
\*   Bag  : x: Int with default 0, StrKey('foo.*'): Int
\*   Unit : no field
\*   Seq  : rest: List(Int) with default [], declared with
\*          init_arg_list=['*rest']
\*   SubPoint: class SubPoint(Point) without a field of its own
SchemaFields(c) ==
  CASE c = "Top" -> <<"child", "x">>
    [] c = "Mid" -> <<"child">>
    [] c = "Vec" -> <<"x", "rest">>
    [] c = "Bag" -> <<"x", "foo.*">>
    [] c = "Unit" -> <<>>
    [] c = "Seq" -> <<"rest">>
    [] OTHER -> <<"x", "y">>

\* The keys of a schema that hold a symbolic object (value spec Object(...)).
ObjectKeys(c) == IF c = "Point" THEN {} ELSE {"child"}

\* The class a field of value spec Object(cls) holds.
ChildClass(c) == IF c = "Top" THEN "Mid" ELSE "Point"

\* Object.allow_symbolic_attribute: True unless the class sets it; Mid does.
allow_symbolic_attribute(c) == c # "Mid"

\* Object.allow_symbolic_assignment: False unless the class sets it.
allow_symbolic_assignment(c) == c # "Top"

\* Whether the class overrides Object._on_change.
OverridesOnChange(c) == c = "Mid"

SeqToSet(s) == {s[i] : i \in DOMAIN s}

\* schema.get_field(name) is not None.
HasField(c, name) == name \in SeqToSet(SchemaFields(c))

\* name.startswith('_')
StartsWithUnderscore(name) == name \in {"_priv"}

\* Attribute names used in assignments: the declared keys, a public name no
\* schema declares, and a private name.
AttrNames == {"x", "y", "tag", "_priv"}

\* The names assigned to in the tree: those, and the key of the object field.
AssignNames == AttrNames \cup {"child"}

\* Values handed to assignments and rebinds: MaxVal + 1 violates the spec.
InputVals == 0..(MaxVal + 1)

\* pg_typing.Int(min_value=0, max_value=MaxVal).apply accepts the value.
ValueSpecAccepts(v) == v \in 0..MaxVal

\* The tree as one value.
Heap(a, s, ss, par, path) ==
  [attrs |-> a, sealed |-> s, store_sealed |-> ss, parent |-> par, path |-> path]

Cur == Heap(sym_attributes, sealed, store_sealed, sym_parent, sym_path)

(***************************************************************************)
(* Paths.                                                                  *)
(***************************************************************************)
RECURSIVE LeafPaths(_)
\* The relative paths of the Int leaves under an object of class c.
LeafPaths(c) ==
  {<<k>> : k \in SeqToSet(SchemaFields(c)) \ ObjectKeys(c)}
    \cup UNION {{<<k>> \o p : p \in LeafPaths(ChildClass(c))} : k \in ObjectKeys(c)}

\* The order in which the entries of a rebind mapping are visited.
PathOrder ==
  << <<"x">>, <<"y">>, <<"child", "x">>, <<"child", "y">>,
     <<"child", "child", "x">>, <<"child", "child", "y">> >>

RECURSIVE Owner(_, _, _)
\* The object whose store holds the leaf at relative path p under n.
Owner(h, n, p) ==
  IF Len(p) = 1 THEN n ELSE Owner(h, h.attrs[n][Head(p)], Tail(p))

LeafKey(p) == p[Len(p)]

RECURSIVE IsAncestorOrSelf(_, _, _)
\* t is o or is reached from o by following sym_parent.
IsAncestorOrSelf(h, t, o) ==
  IF o = NoNode THEN FALSE
  ELSE IF t = o THEN TRUE
  ELSE IsAncestorOrSelf(h, t, h.parent[o])

\* update.path - target.sym_path: the path of leaf <<owner, key>> relative to t.
RelPath(h, t, u) ==
  SubSeq(h.path[u[1]], Len(h.path[t]) + 1, Len(h.path[u[1]])) \o <<u[2]>>

(***************************************************************************)
(* Hooks.  A call's log is the sequence of hook invocations it caused.     *)
(***************************************************************************)
Event(k, n, upd) == [hook |-> k, node |-> n, updates |-> upd]

\* Object._on_bound: a no-op that subclasses override.
OnBound(n) == <<Event("on_bound", n, {})>>

\* Object._subscribes_field_updates: _on_change is overridden by the class.
SubscribesFieldUpdates(n) == OverridesOnChange(ClassOf(n))

\* _on_bound once for every update received.
DefaultOnChangePerField(n, upd) ==
  <<Event("on_change", n, upd)>> \o [i \in 1..Cardinality(upd) |-> OnBound(n)[1]]

\* Object._on_change as inherited: drops the updates and calls _on_bound.
DefaultOnChange(n, upd) == <<Event("on_change", n, upd)>> \o OnBound(n)

\* Objects that do not subscribe are passed over.
OnChangeSubscribersOnly(n, upd) ==
  IF SubscribesFieldUpdates(n) THEN <<Event("on_change", n, upd)>> ELSE <<>>

\* Objects that do not subscribe are handed no updates.
OnChangeDropsUpdates(n, upd) ==
  IF SubscribesFieldUpdates(n)
    THEN <<Event("on_change", n, upd)>>
    ELSE DefaultOnChange(n, {})

\* The _on_change that runs for object n: the override of its class (which
\* only records the updates it receives) or the inherited one.
OnChange(n, upd) ==
  IF SubscribesFieldUpdates(n)
    THEN <<Event("on_change", n, upd)>>
    ELSE DefaultOnChange(n, upd)

RECURSIVE DeepestFirst(_, _)
\* The objects of S as a sequence, longest sym_path first.
DeepestFirst(h, S) ==
  IF S = {} THEN <<>>
  ELSE LET t == CHOOSE a \in S : \A b \in S : Len(h.path[a]) >= Len(h.path[b])
       IN <<t>> \o DeepestFirst(h, S \ {t})

RECURSIVE NotifySeq(_, _, _)
NotifySeq(h, targets, updates) ==
  IF targets = <<>> THEN <<>>
  ELSE LET t == Head(targets)
           mine == {u \in updates : IsAncestorOrSelf(h, t, u[1])}
       IN OnChange(t, {RelPath(h, t, u) : u \in mine})
            \o NotifySeq(h, Tail(targets), updates)

\* base.Symbolic._notify_field_updates: every object that owns a changed leaf
\* and every ancestor of it is notified once, nearest first, with the changed
\* leaves of its subtree under paths relative to it.
NotifyFieldUpdates(h, updates) ==
  NotifySeq(h,
            DeepestFirst(h, {t \in DOMAIN h.parent :
                               \E u \in updates : IsAncestorOrSelf(h, t, u[1])}),
            updates)

(***************************************************************************)
(* The attribute store.                                                    *)
(***************************************************************************)
\* base.treats_as_sealed(obj), outside any seal-override scope.
TreatsAsSealed(h, n) == h.sealed[n]

\* base.writtable_via_accessors(obj): the accessor_writable flag, which
\* __init__ sets from the class's allow_symbolic_assignment.
WritableViaAccessors(n) == allow_symbolic_assignment(ClassOf(n))

Outcome(e, attrs, upd) == [err |-> e, attrs |-> attrs, updates |-> upd]

\* Dict._set_item_without_permission_check: validate, then store; the update
\* is reported only when the value changes.
DictSetItem(attrs, n, key, value) ==
  IF ~ValueSpecAccepts(value) THEN Outcome("ValueError", attrs, {})
  ELSE IF attrs[n][key] = value THEN Outcome("", attrs, {})
  ELSE Outcome("", [attrs EXCEPT ![n][key] = value], {<<n, key>>})

\* Object._set_item_without_permission_check.
SetItemWithoutPermissionCheck(attrs, n, key, value) ==
  DictSetItem(attrs, n, key, value)

\* The entries of a rebind mapping in visiting order.
Entries(batch) == SelectSeq(PathOrder, LAMBDA p : p \in DOMAIN batch)

\* What stops one entry of a rebind on n from being applied, "" if nothing.
EntryError(h, n, p, v) ==
  LET o == Owner(h, n, p)
  IN IF o # n /\ h.store_sealed[o] THEN "WritePermissionError"
     ELSE IF ~ValueSpecAccepts(v) THEN "ValueError"
     ELSE ""

RECURSIVE FirstError(_, _, _, _)
FirstError(h, n, entries, batch) ==
  IF entries = <<>> THEN ""
  ELSE LET e == EntryError(h, n, Head(entries), batch[Head(entries)])
       IN IF e # "" THEN e ELSE FirstError(h, n, Tail(entries), batch)

RECURSIVE Commit(_, _, _, _, _)
Commit(h, attrs, n, entries, batch) ==
  IF entries = <<>> THEN attrs
  ELSE LET p == Head(entries)
           o == Owner(h, n, p)
       IN Commit(h, [attrs EXCEPT ![o][LeafKey(p)] = batch[p]], n, Tail(entries), batch)

\* The leaves whose value differs between two stores of the tree.
ChangedLeaves(old, new) ==
  {u \in (DOMAIN old) \X {"x", "y"} :
     /\ u[2] \in DOMAIN old[u[1]]
     /\ old[u[1]][u[2]] # new[u[1]][u[2]]}

\* A rebind that reports every leaf its mapping names.
DictSymRebindReportsAll(h, n, batch) ==
  LET entries == Entries(batch)
      e == FirstError(h, n, entries, batch)
      new == Commit(h, h.attrs, n, entries, batch)
  IN IF e # "" THEN Outcome(e, h.attrs, {})
     ELSE Outcome("", new, {<<Owner(h, n, p), LeafKey(p)>> : p \in DOMAIN batch})

\* Dict._sym_rebind: every entry is validated before any is committed; the
\* change set holds the leaves whose value actually changed.
DictSymRebind(h, n, batch) ==
  LET entries == Entries(batch)
      e == FirstError(h, n, entries, batch)
      new == Commit(h, h.attrs, n, entries, batch)
  IN IF e # "" THEN Outcome(e, h.attrs, {})
     ELSE Outcome("", new, ChangedLeaves(h.attrs, new))

RECURSIVE SetItemsInTurn(_, _, _, _, _, _)
\* Entry by entry through _set_item_without_permission_check, stopping at the
\* first entry that fails.
SetItemsInTurn(h, attrs, upd, n, entries, batch) ==
  IF entries = <<>> THEN Outcome("", attrs, upd)
  ELSE LET p == Head(entries)
           o == Owner(h, n, p)
           r == SetItemWithoutPermissionCheck(attrs, o, LeafKey(p), batch[p])
       IN IF o # n /\ h.store_sealed[o] THEN Outcome("WritePermissionError", attrs, upd)
          ELSE IF r.err # "" THEN Outcome(r.err, attrs, upd)
          ELSE SetItemsInTurn(h, r.attrs, upd \cup r.updates, n, Tail(entries), batch)

\* A rebind that applies its entries one at a time.
SymRebindInTurn(h, n, batch) ==
  IF TreatsAsSealed(h, n) THEN Outcome("WritePermissionError", h.attrs, {})
  ELSE SetItemsInTurn(h, h.attrs, {}, n, Entries(batch), batch)

\* A rebind that does not ask whether the object is sealed.
SymRebindUnchecked(h, n, batch) == DictSymRebind(h, n, batch)

\* Object._sym_rebind.
SymRebind(h, n, batch) ==
  IF TreatsAsSealed(h, n) THEN Outcome("WritePermissionError", h.attrs, {})
  ELSE DictSymRebind(h, n, batch)

\* The list of base.FieldUpdate that a rebind on n returns: for every changed
\* leaf its path relative to n, its old value and its new value.
FieldUpdates(h, n, r) ==
  {[path |-> RelPath(h, n, u),
    old_value |-> h.attrs[u[1]][u[2]],
    new_value |-> r.attrs[u[1]][u[2]]] : u \in r.updates}

\* Dict.__setitem__: the store's own seal check, then the validated write.
DictSetItemChecked(h, n, key, value) ==
  IF h.store_sealed[n] THEN Outcome("WritePermissionError", h.attrs, {})
  ELSE DictSetItem(h.attrs, n, key, value)

\* An assignment that stores the value as it comes.
SetSymbolicAttrUnvalidated(h, n, name, value) ==
  IF TreatsAsSealed(h, n) THEN Outcome("WritePermissionError", h.attrs, {})
  ELSE IF ~WritableViaAccessors(n) THEN Outcome("WritePermissionError", h.attrs, {})
  ELSE IF h.attrs[n][name] = value THEN Outcome("", h.attrs, {})
  ELSE Outcome("", [h.attrs EXCEPT ![n][name] = value], {<<n, name>>})

\* An assignment that validates the value before it asks for permission.
SetSymbolicAttrValidatesFirst(h, n, name, value) ==
  IF TreatsAsSealed(h, n) THEN Outcome("WritePermissionError", h.attrs, {})
  ELSE IF ~ValueSpecAccepts(value) THEN Outcome("ValueError", h.attrs, {})
  ELSE IF ~WritableViaAccessors(n) THEN Outcome("WritePermissionError", h.attrs, {})
  ELSE DictSetItemChecked(h, n, name, value)

\* Object.__setattr__ on a declared field.
SetSymbolicAttr(h, n, name, value) ==
  IF TreatsAsSealed(h, n) THEN Outcome("WritePermissionError", h.attrs, {})
  ELSE IF ~WritableViaAccessors(n) THEN Outcome("WritePermissionError", h.attrs, {})
  ELSE DictSetItemChecked(h, n, name, value)

\* A test that does not look at the class's allow_symbolic_attribute.
IsRegularMemberByNameOnly(n, name) ==
  \/ ~HasField(ClassOf(n), name)
  \/ StartsWithUnderscore(name)

\* The condition under which Object.__setattr__ is an ordinary assignment.
IsRegularMember(n, name) ==
  \/ ~allow_symbolic_attribute(ClassOf(n))
  \/ ~HasField(ClassOf(n), name)
  \/ StartsWithUnderscore(name)

(***************************************************************************)
(* Seal.                                                                   *)
(***************************************************************************)
\* The symbolic objects held by n's store.
Children(h, n) == {h.attrs[n][k] : k \in ObjectKeys(ClassOf(n))}

\* A seal that flips the flags instead of setting them.
ObjectSealToggle(h, n, flag) ==
  [h EXCEPT !.sealed[n] = ~h.sealed[n], !.store_sealed[n] = ~h.store_sealed[n]]

\* A seal that stops at the object itself.
ObjectSealShallow(h, n, flag) ==
  [h EXCEPT !.sealed[n] = flag, !.store_sealed[n] = flag]

RECURSIVE ObjectSeal(_, _, _)
\* Object.seal: _sym_attributes.seal(flag), which on sealing seals the
\* symbolic values of the store first, then base.Symbolic.seal(flag).
ObjectSeal(h, n, flag) ==
  LET below == IF flag /\ Children(h, n) # {}
                 THEN ObjectSeal(h, CHOOSE c \in Children(h, n) : TRUE, flag)
                 ELSE h
      stored == [below EXCEPT !.store_sealed[n] = flag]
  IN [stored EXCEPT !.sealed[n] = flag]

(***************************************************************************)
(* Position in the tree: sym_setparent, sym_setpath, and the write of a    *)
(* symbolic value into a store.                                            *)
(***************************************************************************)
Moved(h, log) == [h |-> h, log |-> log]

\* A sym_setparent that leaves the old reference in place.
SymSetParentKeepsOld(h, n, parent) ==
  Moved(h, IF h.parent[n] # parent
             THEN <<Event("on_parent_change", n, {})>> ELSE <<>>)

\* Object.sym_setparent: the base class replaces the parent reference, and
\* _on_parent_change runs when the new parent is another object.
SymSetParent(h, n, parent) ==
  Moved([h EXCEPT !.parent[n] = parent],
        IF h.parent[n] # parent
          THEN <<Event("on_parent_change", n, {})>> ELSE <<>>)

\* The symbolic object n's store holds under "child", NoNode if none.
ChildOf(h, n) ==
  IF "child" \in DOMAIN h.attrs[n] THEN h.attrs[n]["child"] ELSE NoNode

\* An update of the path that stops at the object itself.
SymSetPathShallow(h, n, path) ==
  IF h.path[n] = path THEN Moved(h, <<>>)
  ELSE Moved([h EXCEPT !.path[n] = path], <<Event("on_path_change", n, {})>>)

\* A sym_setpath without the test that the path differs.
SymSetPathAlwaysFires(h, n, path) ==
  LET own == [h EXCEPT !.path[n] = path]
      below == IF ChildOf(h, n) = NoNode THEN Moved(own, <<>>)
               ELSE SymSetPathShallow(own, ChildOf(h, n), path \o <<"child">>)
  IN Moved(below.h, below.log \o <<Event("on_path_change", n, {})>>)

RECURSIVE SymSetPath(_, _, _)
\* base.Symbolic.sym_setpath with Object._update_children_paths: when the
\* path differs, it is replaced, the store passes the new path on to the
\* symbolic values it holds, each under its key, and _on_path_change runs.
SymSetPath(h, n, path) ==
  IF h.path[n] = path THEN Moved(h, <<>>)
  ELSE LET own == [h EXCEPT !.path[n] = path]
           below == IF ChildOf(h, n) = NoNode THEN Moved(own, <<>>)
                    ELSE SymSetPath(own, ChildOf(h, n), path \o <<"child">>)
       IN Moved(below.h, below.log \o <<Event("on_path_change", n, {})>>)

\* The object that holds n in its store, NoNode if none does.
HolderOf(h, n) ==
  IF \E q \in DOMAIN h.attrs : ChildOf(h, q) = n
    THEN CHOOSE q \in DOMAIN h.attrs : ChildOf(h, q) = n
    ELSE NoNode

\* Object(cls).apply: the field takes objects of the class it declares.
ObjectSpecAccepts(p, c) ==
  /\ HasField(ClassOf(p), "child")
  /\ ClassOf(c) = ChildClass(ClassOf(p))

Placed(e, h, log, upd) == [err |-> e, h |-> h, log |-> log, updates |-> upd]

\* The store of p is given the symbolic object c for its key child: the value
\* is validated; a value that sits in another store is taken out of it first;
\* the value replaced loses its parent and its path; c gets the path of p
\* extended by the key, and p as its parent.
DictSetObject(h, p, c) ==
  LET old == ChildOf(h, p)
      q == HolderOf(h, c)
      h1 == IF q # NoNode THEN [h EXCEPT !.attrs[q]["child"] = NoNode] ELSE h
      h2 == [h1 EXCEPT !.attrs[p]["child"] = c]
      m3 == IF old # NoNode THEN SymSetParent(h2, old, NoNode) ELSE Moved(h2, <<>>)
      m4 == IF old # NoNode THEN SymSetPath(m3.h, old, <<>>) ELSE Moved(m3.h, <<>>)
      m5 == SymSetPath(m4.h, c, h.path[p] \o <<"child">>)
      m6 == SymSetParent(m5.h, c, p)
  IN IF ~ObjectSpecAccepts(p, c) THEN Placed("ValueError", h, <<>>, {})
     ELSE IF old = c THEN Placed("", h, <<>>, {})
     ELSE Placed("", m6.h, m3.log \o m4.log \o m5.log \o m6.log, {<<p, "child">>})

\* Object._sym_rebind with a mapping that gives the field child an object.
SymRebindObject(h, p, c) ==
  IF TreatsAsSealed(h, p) THEN Placed("WritePermissionError", h, <<>>, {})
  ELSE DictSetObject(h, p, c)

(***************************************************************************)
(* Construction: Object.__init__, Object.from_json, Object.sym_jsonify.    *)
(***************************************************************************)
CtorClasses == {"Point", "Pair", "Vec", "Bag", "Unit", "Seq"}

\* Values: ints, lists, strings, and the MISSING marker of a partial object.
IntV(i) == [t |-> "int", v |-> i]
ListV(l) == [t |-> "list", v |-> l]
StrV(str) == [t |-> "str", v |-> str]
MissingV == [t |-> "missing", v |-> 0]

\* base._TYPE_NAME_KEY
TypeNameKey == "_type"

\* isinstance(key, pg_typing.ConstStrKey)
IsConstKey(k) == k # "foo.*"

\* The field key matches a keyword: a constant key by equality, the pattern
\* StrKey('foo.*') by its regular expression.
KeyMatches(k, name) == IF IsConstKey(k) THEN k = name ELSE name \in {"foo"}

\* field.value.has_default
HasDefault(c, k) == c # "Pair"

\* field.value.default
DefaultOf(c, k) == IF k = "rest" THEN ListV(<<>>) ELSE IntV(0)

\* cls.init_arg_list
InitArgList(c) ==
  CASE c = "Vec" -> <<"x", "*rest">>
    [] c = "Bag" -> <<"x">>
    [] c = "Unit" -> <<>>
    [] c = "Seq" -> <<"*rest">>
    [] OTHER -> <<"x", "y">>

\* name.startswith('*')
StartsWithStar(name) == name \in {"*rest"}

\* name[1:] of a name that starts with '*'
AfterStar(name) == IF name = "*rest" THEN "rest" ELSE name

\* Object.allow_symbolic_mutation
allow_symbolic_mutation(c) == c # "Bag"

\* cls.serialization_key, which __init_subclass__ sets to cls.type_name
SerializationKey(c) == c

\* The keyword names of a call, in the order the mapping holds them.
KwOrder == <<"_type", "x", "y", "z", "foo">>
KwSeq(kw) == SelectSeq(KwOrder, LAMBDA k : k \in DOMAIN kw)

IndexOf(seq, k) == CHOOSE i \in DOMAIN seq : seq[i] = k

\* schema.resolve(keys)[1]: the keys no field of the schema matches.
UnmatchedKeys(c, kw) ==
  SelectSeq(KwSeq(kw),
            LAMBDA name : ~\E k \in SeqToSet(SchemaFields(c)) : KeyMatches(k, name))

\* The schema key that holds the value stored under name.
FieldOf(c, name) ==
  CHOOSE k \in SeqToSet(SchemaFields(c)) : KeyMatches(k, name)

RECURSIVE SpecAccepts(_, _)
\* field.value.apply(value) succeeds: Int(min_value=0, max_value=MaxVal) for
\* every key but rest, List(Int(...)) for rest.
SpecAccepts(k, val) ==
  IF k = "rest"
    THEN val.t = "list" /\ \A i \in DOMAIN val.v : SpecAccepts("x", val.v[i])
    ELSE val.t = "int" /\ ValueSpecAccepts(val.v)

NoStore == [k \in {} |-> MissingV]

Built(c, e, keys, values, has, store, partial, sl, ssl, log, steps) ==
  [cls |-> c, err |-> e, keys |-> keys, values |-> values, has_store |-> has,
   store |-> store, allow_partial |-> partial, sealed |-> sl,
   store_sealed |-> ssl, log |-> log, steps |-> steps]

Failed(c, e, keys, values) ==
  Built(c, e, keys, values, FALSE, NoStore, FALSE, FALSE, FALSE, <<>>, <<>>)

\* The sealed state a constructor call asks for.
RequestedSeal(c, sealed_arg) ==
  IF sealed_arg = "None" THEN ~allow_symbolic_mutation(c) ELSE sealed_arg = "True"

\* One step of a successful construction and the flags as it leaves them:
\* the object's own sealed flag, whether the store exists and its sealed flag,
\* whether the object is the store's parent, how often _on_bound has run.
Step(name, sl, has, ssl, par, bound) ==
  [step |-> name, sealed |-> sl, has_store |-> has, store_sealed |-> ssl,
   parent_set |-> par, on_bound |-> bound]

\* super().__init__(..., sealed=sealed, ...): the base class is handed the
\* requested flag and keeps it as the object's sealed flag.
SymbolicInit(sl) == Step("base_init", sl, FALSE, FALSE, FALSE, 0)

\* pg_dict.Dict(field_args, ..., sealed=sealed, ...): the store is handed the
\* requested flag as well.
DictInitSealed(sl) == sl

\* _on_init before the store has its parent, and the seal before _on_init.
InitStepsSealFirst(sl) ==
  LET s1 == SymbolicInit(sl)
      s2 == Step("store", s1.sealed, TRUE, DictInitSealed(sl), FALSE, 0)
      s3 == Step("seal", sl, TRUE, sl, FALSE, 0)
      s4 == Step("on_init", s3.sealed, TRUE, s3.store_sealed, FALSE, 1)
      s5 == Step("sym_setparent", s4.sealed, TRUE, s4.store_sealed, TRUE, 1)
  IN <<s1, s2, s3, s4, s5>>

\* The steps of Object.__init__ once the arguments are resolved: the base
\* initializer, the store, sym_setparent, _on_init (which calls _on_bound),
\* seal(sealed).
InitSteps(sl) ==
  LET s1 == SymbolicInit(sl)
      s2 == Step("store", s1.sealed, TRUE, DictInitSealed(sl), FALSE, 0)
      s3 == Step("sym_setparent", s2.sealed, TRUE, s2.store_sealed, TRUE, 0)
      s4 == Step("on_init", s3.sealed, TRUE, s3.store_sealed, TRUE, 1)
      s5 == Step("seal", sl, TRUE, sl, TRUE, 1)
  IN <<s1, s2, s3, s4, s5>>

\* Every positional argument, named ones included, goes to the variadic field.
PositionalArgsAllVariadic(c, args) ==
  LET names == InitArgList(c)
      variadic == names # <<>> /\ StartsWithStar(names[Len(names)])
      named == IF variadic THEN Len(names) - 1 ELSE Len(names)
      used == IF Len(args) < named THEN Len(args) ELSE named
      vararg == IF variadic THEN {AfterStar(names[Len(names)])} ELSE {}
  IN IF args = <<>> THEN [k \in {} |-> MissingV]
     ELSE [k \in {names[i] : i \in 1..used} \cup vararg |->
             IF k \in vararg
               THEN ListV(args)
               ELSE args[IndexOf(names, k)]]

\* field_args after the positional arguments were filled in.
PositionalArgs(c, args) ==
  LET names == InitArgList(c)
      variadic == names # <<>> /\ StartsWithStar(names[Len(names)])
      named == IF variadic THEN Len(names) - 1 ELSE Len(names)
      used == IF Len(args) < named THEN Len(args) ELSE named
      vararg == IF variadic THEN {AfterStar(names[Len(names)])} ELSE {}
  IN IF args = <<>> THEN NoStore
     ELSE [k \in {names[i] : i \in 1..used} \cup vararg |->
             IF k \in vararg
               THEN ListV(SubSeq(args, named + 1, Len(args)))
               ELSE args[IndexOf(names, k)]]

\* The TypeError the positional arguments raise, "" if none.
PositionalError(c, args) ==
  LET names == InitArgList(c)
  IN IF args = <<>> THEN ""
     ELSE IF SchemaFields(c) = <<>> THEN "TypeError: takes no arguments"
     ELSE IF names # <<>> /\ StartsWithStar(names[Len(names)]) THEN ""
     ELSE IF Len(args) > Len(names) THEN "TypeError: too many positional arguments"
     ELSE ""

\* The keywords that name a field the positional arguments filled already.
Conflicts(c, args, kw) ==
  SelectSeq(KwSeq(kw), LAMBDA k : k \in DOMAIN PositionalArgs(c, args))

\* field_args once the keywords were added.
FieldArgs(c, args, kw) ==
  LET pos == PositionalArgs(c, args)
  IN [k \in DOMAIN pos \cup DOMAIN kw |-> IF k \in DOMAIN kw THEN kw[k] ELSE pos[k]]

\* Only the first required field that field_args leaves out.
MissingArgsFirstOnly(c, fa) ==
  LET all == SelectSeq(SchemaFields(c),
                       LAMBDA k : ~HasDefault(c, k) /\ IsConstKey(k) /\ k \notin DOMAIN fa)
  IN IF all = <<>> THEN <<>> ELSE <<Head(all)>>

\* The required fields that field_args leaves out.
MissingArgs(c, fa) ==
  SelectSeq(SchemaFields(c),
            LAMBDA k : ~HasDefault(c, k) /\ IsConstKey(k) /\ k \notin DOMAIN fa)

\* pg_dict.Dict(field_args, value_spec=cls.sym_fields, ...): every value is
\* validated against its field; a constant key left out gets its default, or
\* MISSING in a partial object.
DictInit(c, fa) ==
  [k \in DOMAIN fa \cup {f \in SeqToSet(SchemaFields(c)) : IsConstKey(f)} |->
     IF k \in DOMAIN fa THEN fa[k]
     ELSE IF HasDefault(c, k) THEN DefaultOf(c, k)
     ELSE MissingV]

DictInitFails(c, fa) == \E k \in DOMAIN fa : ~SpecAccepts(FieldOf(c, k), fa[k])

\* A constructor that lets the keyword win over the positional argument.
ObjectInitKeywordWins(c, args, kw, allow_partial, sealed_arg) ==
  LET sl == RequestedSeal(c, sealed_arg)
      fa == FieldArgs(c, args, kw)
  IN IF allow_partial = "NotBool" THEN Failed(c, "TypeError: allow_partial", <<>>, <<>>)
     ELSE IF UnmatchedKeys(c, kw) # <<>>
       THEN Failed(c, "TypeError: unexpected keyword", UnmatchedKeys(c, kw), <<>>)
     ELSE IF PositionalError(c, args) # "" THEN Failed(c, PositionalError(c, args), <<>>, <<>>)
     ELSE IF allow_partial = "False" /\ MissingArgs(c, fa) # <<>>
       THEN Failed(c, "TypeError: missing required", MissingArgs(c, fa), <<>>)
     ELSE IF DictInitFails(c, fa) THEN Failed(c, "ValueError", <<>>, <<>>)
     ELSE Built(c, "", <<>>, <<>>, TRUE, DictInit(c, fa), allow_partial = "True",
                InitSteps(sl)[5].sealed, InitSteps(sl)[5].store_sealed,
                OnBound(NoNode), InitSteps(sl))

\* A constructor that ignores the keywords its schema does not resolve.
ObjectInitDropsUnknown(c, args, kw, allow_partial, sealed_arg) ==
  LET sl == RequestedSeal(c, sealed_arg)
      known == [k \in DOMAIN kw \ SeqToSet(UnmatchedKeys(c, kw)) |-> kw[k]]
      fa == FieldArgs(c, args, known)
  IN IF allow_partial = "NotBool" THEN Failed(c, "TypeError: allow_partial", <<>>, <<>>)
     ELSE IF PositionalError(c, args) # "" THEN Failed(c, PositionalError(c, args), <<>>, <<>>)
     ELSE IF Conflicts(c, args, known) # <<>>
       THEN LET k == Head(Conflicts(c, args, known))
            IN Failed(c, "TypeError: multiple values", <<k>>,
                      <<PositionalArgs(c, args)[k], kw[k]>>)
     ELSE IF allow_partial = "False" /\ MissingArgs(c, fa) # <<>>
       THEN Failed(c, "TypeError: missing required", MissingArgs(c, fa), <<>>)
     ELSE IF DictInitFails(c, fa) THEN Failed(c, "ValueError", <<>>, <<>>)
     ELSE Built(c, "", <<>>, <<>>, TRUE, DictInit(c, fa), allow_partial = "True",
                InitSteps(sl)[5].sealed, InitSteps(sl)[5].store_sealed,
                OnBound(NoNode), InitSteps(sl))

\* A constructor that looks for missing fields before it looks for a field
\* given twice.
ObjectInitMissingBeforeConflict(c, args, kw, allow_partial, sealed_arg) ==
  LET sl == RequestedSeal(c, sealed_arg)
      fa == FieldArgs(c, args, kw)
  IN IF allow_partial = "NotBool" THEN Failed(c, "TypeError: allow_partial", <<>>, <<>>)
     ELSE IF UnmatchedKeys(c, kw) # <<>>
       THEN Failed(c, "TypeError: unexpected keyword", UnmatchedKeys(c, kw), <<>>)
     ELSE IF PositionalError(c, args) # "" THEN Failed(c, PositionalError(c, args), <<>>, <<>>)
     ELSE IF allow_partial = "False" /\ MissingArgs(c, fa) # <<>>
       THEN Failed(c, "TypeError: missing required", MissingArgs(c, fa), <<>>)
     ELSE IF Conflicts(c, args, kw) # <<>>
       THEN LET k == Head(Conflicts(c, args, kw))
            IN Failed(c, "TypeError: multiple values", <<k>>,
                      <<PositionalArgs(c, args)[k], kw[k]>>)
     ELSE IF DictInitFails(c, fa) THEN Failed(c, "ValueError", <<>>, <<>>)
     ELSE Built(c, "", <<>>, <<>>, TRUE, DictInit(c, fa), allow_partial = "True",
                InitSteps(sl)[5].sealed, InitSteps(sl)[5].store_sealed,
                OnBound(NoNode), InitSteps(sl))

\* Object.__init__(*args, allow_partial=.., sealed=.., **kw) of class c.
ObjectInit(c, args, kw, allow_partial, sealed_arg) ==
  LET sl == RequestedSeal(c, sealed_arg)
      fa == FieldArgs(c, args, kw)
  IN IF allow_partial = "NotBool" THEN Failed(c, "TypeError: allow_partial", <<>>, <<>>)
     ELSE IF UnmatchedKeys(c, kw) # <<>>
       THEN Failed(c, "TypeError: unexpected keyword", UnmatchedKeys(c, kw), <<>>)
     ELSE IF PositionalError(c, args) # "" THEN Failed(c, PositionalError(c, args), <<>>, <<>>)
     ELSE IF Conflicts(c, args, kw) # <<>>
       THEN LET k == Head(Conflicts(c, args, kw))
            IN Failed(c, "TypeError: multiple values", <<k>>,
                      <<PositionalArgs(c, args)[k], kw[k]>>)
     ELSE IF allow_partial = "False" /\ MissingArgs(c, fa) # <<>>
       THEN Failed(c, "TypeError: missing required", MissingArgs(c, fa), <<>>)
     ELSE IF DictInitFails(c, fa) THEN Failed(c, "ValueError", <<>>, <<>>)
     ELSE Built(c, "", <<>>, <<>>, TRUE, DictInit(c, fa), allow_partial = "True",
                InitSteps(sl)[5].sealed, InitSteps(sl)[5].store_sealed,
                OnBound(NoNode), InitSteps(sl))

\* A seal that leaves the store as it was.
BuiltSealObjectOnly(obj, flag) == [obj EXCEPT !.sealed = flag]

\* Object.seal on an object whose store holds plain values only:
\* _sym_attributes.seal(flag), then base.Symbolic.seal(flag).
BuiltSeal(obj, flag) ==
  LET stored == [obj EXCEPT !.store_sealed = flag]
  IN [stored EXCEPT !.sealed = flag]

\* Object.partial: cls(*args, allow_partial=True, **kwargs).
Partial(c, args, kw) == ObjectInit(c, args, kw, "True", "None")

\* Object._sym_missing: the keys of the store that hold no value.
SymMissing(obj) == {k \in DOMAIN obj.store : obj.store[k].t = "missing"}

\* A from_json that takes the type key out of the mapping first.
FromJsonSkipsType(c, json_value, allow_partial) ==
  ObjectInit(c, <<>>, [k \in DOMAIN json_value \ {TypeNameKey} |-> json_value[k]],
             allow_partial, "None")

\* Object.from_json: cls(allow_partial=allow_partial, **json_value).
FromJson(c, json_value, allow_partial) ==
  ObjectInit(c, <<>>, json_value, allow_partial, "None")

\* Dict.to_json: one entry per key of the store, plain values as they are.
DictToJson(store) == store

\* A sym_jsonify that leaves the fields out.
SymJsonifyTypeOnly(obj) ==
  [k \in {TypeNameKey} |-> StrV(SerializationKey(obj.cls))]

\* Object.sym_jsonify: the type key merged with the store's entries.
SymJsonify(obj) ==
  LET fields == DictToJson(obj.store)
  IN [k \in {TypeNameKey} \cup DOMAIN fields |->
        IF k = TypeNameKey THEN StrV(SerializationKey(obj.cls)) ELSE fields[k]]

\* Equality of two values: same kind, same content.
ValEq(a, b) == a.t = b.t /\ a.v = b.v

\* Dict.sym_eq: same keys, equal values.
DictEq(a, b) == DOMAIN a = DOMAIN b /\ \A k \in DOMAIN a : ValEq(a[k], b[k])

\* An equality that does not look at the class.
SymEqAnyClass(a, b) == DictEq(a.store, b.store)

\* Object.sym_eq for two distinct objects: same class, equal stores.
SymEq(a, b) == a.cls = b.cls /\ DictEq(a.store, b.store)

\* Object.use_symbolic_comparison: True unless the class sets it; Unit does.
use_symbolic_comparison(c) == c # "Unit"

\* A reference to an object: its identity and what it holds.
Ref(id, obj) == [id |-> id, obj |-> obj]

\* Object.sym_eq: self is other, or the same type and equal stores.
SymEqRef(a, b) == a.id = b.id \/ SymEq(a.obj, b.obj)

\* Object.__eq__: sym_eq under symbolic comparison, identity otherwise.
ObjectEq(a, b) ==
  IF use_symbolic_comparison(a.obj.cls) THEN SymEqRef(a, b) ELSE a.id = b.id

(***************************************************************************)
(* Equality and hashing of the objects of a tree.                          *)
(***************************************************************************)
\* Hashes are integers of HashBits bits.
HashBits == 8
HashMod == 2 ^ HashBits

\* hash((a, b)): the hash of a tuple is computed from the hashes of its items.
HashPair(a, b) == (31 * a + b + 7) % HashMod

\* hash(cls) and hash(key): one value per class and per key.
ClassHash(c) == CASE c = "Top" -> 11 [] c = "Mid" -> 12 [] OTHER -> 13
KeyHash(k) == CASE k = "child" -> 1 [] k = "x" -> 2 [] OTHER -> 3

\* hash of a plain value, and of the place of a value that is not there.
PlainHash(v) == v % HashMod
NoValueHash == 5

\* super().__hash__(): the hash of the object's identity.
IdentityHash(n) == (97 * n) % HashMod

\* A sym_hash that takes the object's identity in.
TreeSymHashWithIdentity(h, n) == HashPair(ClassHash(ClassOf(n)), IdentityHash(n))

RECURSIVE TreeSymHash(_, _)
RECURSIVE DictSymHash(_, _, _)
\* Dict.sym_hash: the hash of the (key, hash of value) pairs in key order.
DictSymHash(h, n, keys) ==
  IF keys = <<>> THEN 0
  ELSE LET k == Head(keys)
           v == h.attrs[n][k]
           vh == IF k \notin ObjectKeys(ClassOf(n)) THEN PlainHash(v)
                 ELSE IF v = NoNode THEN NoValueHash
                 ELSE TreeSymHash(h, v)
       IN HashPair(HashPair(KeyHash(k), vh), DictSymHash(h, n, Tail(keys)))

\* Object.sym_hash: the hash of (class, hash of the store).
TreeSymHash(h, n) ==
  HashPair(ClassHash(ClassOf(n)), DictSymHash(h, n, SchemaFields(ClassOf(n))))

\* Object.__hash__: sym_hash under symbolic comparison, identity otherwise.
ObjectHash(h, n) ==
  IF use_symbolic_comparison(ClassOf(n)) THEN TreeSymHash(h, n) ELSE IdentityHash(n)

RECURSIVE TreeSymEq(_, _, _)
\* Object.sym_eq on two objects of a tree: the same object, or the same class
\* and stores that hold equal values under the same keys.
TreeSymEq(h, a, b) ==
  \/ a = b
  \/ /\ ClassOf(a) = ClassOf(b)
     /\ DOMAIN h.attrs[a] = DOMAIN h.attrs[b]
     /\ \A k \in DOMAIN h.attrs[a] :
          LET va == h.attrs[a][k]
              vb == h.attrs[b][k]
          IN IF k \in ObjectKeys(ClassOf(a)) /\ va # NoNode /\ vb # NoNode
               THEN TreeSymEq(h, va, vb)
               ELSE va = vb

\* Object.__eq__ on two objects of a tree.
TreeObjectEq(h, a, b) ==
  IF use_symbolic_comparison(ClassOf(a)) THEN TreeSymEq(h, a, b) ELSE a = b

WithoutType(m) == [k \in DOMAIN m \ {TypeNameKey} |-> m[k]]
WithType(c, m) ==
  [k \in DOMAIN m \cup {TypeNameKey} |->
     IF k = TypeNameKey THEN StrV(SerializationKey(c)) ELSE m[k]]

\* The arguments a call is given.
ArgVals == {IntV(i) : i \in InputVals}
KwNames == {"x", "y", "z", "foo"}
ArgLists == UNION {[1..k -> ArgVals] : k \in 0..MaxArgs}
KwArgs ==
  UNION {[D -> ArgVals] : D \in {S \in SUBSET KwNames : Cardinality(S) <= MaxKw}}
PartialArgs == {"True", "False", "NotBool"}
SealedArgs == {"None", "True", "False"}
\* The calls tried pass at most MaxPassed arguments, and give allow_partial or
\* sealed, not both.
MaxPassed == MaxArgs + MaxKw - 1
CallModes == {m \in PartialArgs \X SealedArgs : m[1] = "False" \/ m[2] = "None"}
\* The classes and keywords of the second object of a comparison.
OtherClasses == CtorClasses \cup {"SubPoint"}
OtherKwArgs == {kw \in KwArgs : DOMAIN kw \subseteq {"x", "y"}}

NoBuilt == Failed("", "not called", <<>>, <<>>)

CtorState(pc, c, args, kw, partial, sl, res, json, back) ==
  [pc |-> pc, cls |-> c, args |-> args, kwargs |-> kw, allow_partial |-> partial,
   sealed |-> sl, res |-> res, json |-> json, back |-> back]

NoCtor == CtorState("idle", "", <<>>, NoStore, "False", "None", NoBuilt, NoStore, NoBuilt)

(***************************************************************************)
(* Class creation: Object.__init_subclass__ and the members decorator.     *)
(***************************************************************************)
\* A field of a schema: its key and its value spec, Int(max_value=spec).
Field(k, spec) == [key |-> k, spec |-> spec]

SchemaOf(e, fields) == [err |-> e, fields |-> fields]

FieldKeys(fields) == {fields[i].key : i \in DOMAIN fields}

\* The classes a class statement can name as bases, with their schemas:
\*   A (a, b), B (c), A2(A) (a, b, e), and Plain, which is not symbolic.
BaseClasses == {"A", "A2", "B", "Plain"}

\* getattr(base_cls, 'schema', None) of a base class that has one.
BaseSchema(b) ==
  CASE b = "A" -> <<Field("a", 1), Field("b", 0)>>
    [] b = "A2" -> <<Field("a", 1), Field("b", 0), Field("e", 1)>>
    [] b = "B" -> <<Field("c", 1)>>
    [] OTHER -> <<>>

\* isinstance(base_schema, pg_typing.Schema)
HasSchema(b) == b # "Plain"

\* b is a subclass of a.
IsSubclass(b, a) == b = a \/ (b = "A2" /\ a = "A")

\* The schemas of the bases, last base first.
BaseSchemaListReversed(bases) ==
  LET with == SelectSeq(bases, HasSchema)
  IN [i \in DOMAIN with |-> BaseSchema(with[Len(with) + 1 - i])]

\* base_schema_list: the schemas of cls.__bases__ that have one, in the
\* order of the class statement.
BaseSchemaList(bases) ==
  LET with == SelectSeq(bases, HasSchema)
  IN [i \in DOMAIN with |-> BaseSchema(with[i])]

\* Schema.extend: the fields of a base whose key the schema does not hold yet
\* are appended in the base's order.
ExtendSchema(fields, base) ==
  fields \o SelectSeq(base, LAMBDA f : f.key \notin FieldKeys(fields))

RECURSIVE CreateSchema(_, _)
\* pg_typing.create_schema(maybe_field_list=[], base_schema_list=..): the
\* bases are merged one after the other in the order of the list.
CreateSchema(fields, base_schema_list) ==
  IF base_schema_list = <<>> THEN fields
  ELSE CreateSchema(ExtendSchema(fields, Head(base_schema_list)),
                    Tail(base_schema_list))

\* Object.__init_subclass__: the schema the class gets from its bases.
InitSubclass(bases) == SchemaOf("", CreateSchema(<<>>, BaseSchemaList(bases)))

\* An override is compatible when it does not widen the inherited spec.
Compatible(inherited, declared) == declared.spec <= inherited.spec

RECURSIVE AddFields(_, _)
\* One declared field after the other: a key the schema holds is overridden
\* in place, a new key is appended.
AddFields(fields, declared) ==
  IF declared = <<>> THEN fields
  ELSE LET f == Head(declared)
       IN AddFields(IF f.key \in FieldKeys(fields)
                      THEN [i \in DOMAIN fields |->
                              IF fields[i].key = f.key THEN f ELSE fields[i]]
                      ELSE Append(fields, f),
                    Tail(declared))

\* schema_utils.update_schema(cls, fields, ..): a key declared twice and an
\* override that widens the inherited spec fail the class statement.
UpdateSchema(schema, declared) ==
  IF \E i, j \in DOMAIN declared : i # j /\ declared[i].key = declared[j].key
    THEN SchemaOf("KeyError: duplicate key", schema.fields)
  ELSE IF \E i \in DOMAIN declared, j \in DOMAIN schema.fields :
            /\ declared[i].key = schema.fields[j].key
            /\ ~Compatible(schema.fields[j], declared[i])
    THEN SchemaOf("TypeError: incompatible override", schema.fields)
  ELSE SchemaOf("", AddFields(schema.fields, declared))

\* members(fields)(cls): the decorator hands the fields to update_schema.
Members(schema, declared) == UpdateSchema(schema, declared)

\* The class statements tried: bases without repetition, none ahead of one of
\* its own subclasses, and declared fields over inherited and new keys.
DeclKeys == {"a", "c", "n", "m"}
DeclFields == {Field(k, spec) : k \in DeclKeys, spec \in InputVals}
BaseLists ==
  {bs \in UNION {[1..k -> BaseClasses] : k \in 0..MaxBases} :
     \A i, j \in DOMAIN bs : i < j => (bs[i] # bs[j] /\ ~IsSubclass(bs[j], bs[i]))}
FieldLists == UNION {[1..k -> DeclFields] : k \in 0..MaxFields}

Decl(pc, bases, fields, schema) ==
  [pc |-> pc, bases |-> bases, fields |-> fields, schema |-> schema]

NoDecl == Decl("idle", <<>>, <<>>, SchemaOf("", <<>>))

(***************************************************************************)
(* The state after Top(Mid(Point(x=.., y=..)), x=..).                      *)
(***************************************************************************)
Call(op, n, name, flag, before, e, log, ret) ==
  [op |-> op, target |-> n, name |-> name, flag |-> flag, before |-> before,
   err |-> e, log |-> log, ret |-> ret]

NoCall == Call("init", NoNode, "", FALSE, FALSE, "", <<>>, {})

Init ==
  /\ \E a, c, d \in 0..MaxVal :
       sym_attributes = [n \in Nodes |->
         CASE n = 1 -> [child |-> 2, x |-> a]
           [] n = 2 -> [child |-> 3]
           [] OTHER -> [x |-> c, y |-> d]]
  /\ sealed = [n \in Nodes |-> FALSE]
  /\ store_sealed = [n \in Nodes |-> FALSE]
  /\ sym_parent = [n \in Nodes |-> n - 1]
  /\ sym_path = [n \in Nodes |-> [i \in 1..(n - 1) |-> "child"]]
  /\ last = NoCall
  /\ ctor = NoCtor
  /\ decl = NoDecl

(***************************************************************************)
(* Actions.                                                                *)
(***************************************************************************)
\* obj.<name> = value
SetAttr(n, name, value) ==
  /\ UNCHANGED <<sealed, store_sealed, sym_parent, sym_path, ctor, decl>>
  /\ IF IsRegularMember(n, name)
       THEN /\ UNCHANGED sym_attributes
            /\ last' = Call("setattr", n, name, FALSE, sealed[n], "", <<>>, {})
       ELSE LET r == SetSymbolicAttr(Cur, n, name, value)
            IN /\ sym_attributes' = r.attrs
               /\ last' = Call("setattr", n, name, FALSE, sealed[n], r.err,
                               NotifyFieldUpdates(Cur, r.updates), r.updates)

\* obj.rebind(batch)
Rebind(n, batch) ==
  LET r == SymRebind(Cur, n, batch)
  IN /\ sym_attributes' = r.attrs
     /\ last' = Call("rebind", n, "", FALSE, sealed[n], r.err,
                     NotifyFieldUpdates(Cur, r.updates), r.updates)
     /\ UNCHANGED <<sealed, store_sealed, sym_parent, sym_path, ctor, decl>>

\* obj.seal(flag)
Seal(n, flag) ==
  LET h == ObjectSeal(Cur, n, flag)
  IN /\ sealed' = h.sealed
     /\ store_sealed' = h.store_sealed
     /\ last' = Call("seal", n, "", flag, sealed[n], "", <<>>, {})
     /\ UNCHANGED <<sym_attributes, sym_parent, sym_path, ctor, decl>>

BatchesOf ==
  [n \in Nodes |->
     UNION {[D -> InputVals] :
              D \in {S \in SUBSET LeafPaths(ClassOf(n)) :
                       Cardinality(S) >= 1 /\ Cardinality(S) <= MaxBatch}}]

\* The rebind mappings tried on object n.
Batches(n) == BatchesOf[n]

Next ==
  \/ \E n \in Nodes, name \in AssignNames, v \in InputVals : SetAttr(n, name, v)
  \/ \E n \in Nodes : \E b \in Batches(n) : Rebind(n, b)
  \/ \E n \in Nodes, flag \in BOOLEAN : Seal(n, flag)

Spec == Init /\ [][Next]_vars

(***************************************************************************)
(* CtorSpec: one call on arguments drawn from bounded sets.                *)
(***************************************************************************)
CtorInit ==
  /\ sym_attributes = [n \in Nodes |->
       CASE n = 1 -> [child |-> 2, x |-> 0]
         [] n = 2 -> [child |-> 3]
         [] OTHER -> [x |-> 0, y |-> 0]]
  /\ sealed = [n \in Nodes |-> FALSE]
  /\ store_sealed = [n \in Nodes |-> FALSE]
  /\ sym_parent = [n \in Nodes |-> n - 1]
  /\ sym_path = [n \in Nodes |-> [i \in 1..(n - 1) |-> "child"]]
  /\ last = NoCall
  /\ \E c \in CtorClasses, args \in ArgLists, kw \in KwArgs, mode \in CallModes :
       /\ Len(args) + Cardinality(DOMAIN kw) <= MaxPassed
       /\ ctor = CtorState("call", c, args, kw, mode[1], mode[2],
                           NoBuilt, NoStore, NoBuilt)
  /\ decl = NoDecl

\* cls(*args, allow_partial=.., sealed=.., **kwargs)
Construct ==
  /\ ctor.pc = "call"
  /\ ctor' = [ctor EXCEPT
       !.pc = "made",
       !.res = ObjectInit(ctor.cls, ctor.args, ctor.kwargs, ctor.allow_partial,
                          ctor.sealed)]
  /\ UNCHANGED <<tree, decl>>

\* cls.from_json(mapping, allow_partial=..) after cls(allow_partial=.., **kwargs),
\* the mapping being the keywords of that call, with or without the type key.
LoadJson(with_type) ==
  /\ ctor.pc = "made"
  /\ ctor.args = <<>>
  /\ LET m == IF with_type THEN WithType(ctor.cls, ctor.kwargs) ELSE ctor.kwargs
     IN ctor' = [ctor EXCEPT
          !.pc = "loaded",
          !.json = m,
          !.back = FromJson(ctor.cls, m, ctor.allow_partial)]
  /\ UNCHANGED <<tree, decl>>

\* cls.partial(*args, **kwargs) after cls(*args, **kwargs) on the same
\* arguments.
PartialCall ==
  /\ ctor.pc = "made"
  /\ ctor.allow_partial = "False"
  /\ ctor.sealed = "None"
  /\ ctor' = [ctor EXCEPT
       !.pc = "partial",
       !.back = Partial(ctor.cls, ctor.args, ctor.kwargs)]
  /\ UNCHANGED <<tree, decl>>

\* A second object, c2(**kw2), next to the one the call built.
ConstructOther(c2, kw2) ==
  /\ ctor.pc = "made"
  /\ ctor.res.err = ""
  /\ ctor.args = <<>>
  /\ ctor.allow_partial = "False"
  /\ ctor.sealed = "None"
  /\ ctor' = [ctor EXCEPT
       !.pc = "other",
       !.back = ObjectInit(c2, <<>>, kw2, "False", "None")]
  /\ UNCHANGED <<tree, decl>>

\* obj.sym_jsonify() of the object a call built with every field assigned.
Jsonify ==
  /\ ctor.pc = "made"
  /\ ctor.res.err = ""
  /\ \A k \in DOMAIN ctor.res.store : ctor.res.store[k].t # "missing"
  /\ ctor' = [ctor EXCEPT !.pc = "json", !.json = SymJsonify(ctor.res)]
  /\ UNCHANGED <<tree, decl>>

\* cls.from_json(mapping) of the mapping sym_jsonify gave, as it is or with
\* the type key taken out.
Reconstruct(strip) ==
  /\ ctor.pc = "json"
  /\ LET m == IF strip THEN WithoutType(ctor.json) ELSE ctor.json
     IN ctor' = [ctor EXCEPT
          !.pc = "back",
          !.json = m,
          !.back = FromJson(ctor.cls, m, "False")]
  /\ UNCHANGED <<tree, decl>>

\* obj.seal(flag) on the object the call built, once or again.
SealPcs == {"seal(True)", "seal(False)"}
SealBuilt(flag) ==
  /\ ctor.pc \in {"made"} \cup SealPcs
  /\ ctor.res.err = ""
  /\ ctor' = [ctor EXCEPT
       !.pc = IF flag THEN "seal(True)" ELSE "seal(False)",
       !.back = BuiltSeal(IF ctor.pc = "made" THEN ctor.res ELSE ctor.back, flag)]
  /\ UNCHANGED <<tree, decl>>

CtorNext ==
  \/ Construct
  \/ \E flag \in BOOLEAN : SealBuilt(flag)
  \/ \E with_type \in BOOLEAN : LoadJson(with_type)
  \/ PartialCall
  \/ \E c2 \in OtherClasses, kw2 \in OtherKwArgs : ConstructOther(c2, kw2)
  \/ Jsonify
  \/ \E strip \in BOOLEAN : Reconstruct(strip)

CtorSpec == CtorInit /\ [][CtorNext]_vars

(***************************************************************************)
(* SchemaSpec: one class statement on bases and fields from bounded sets.  *)
(***************************************************************************)
SchemaInit ==
  /\ sym_attributes = [n \in Nodes |->
       CASE n = 1 -> [child |-> 2, x |-> 0]
         [] n = 2 -> [child |-> 3]
         [] OTHER -> [x |-> 0, y |-> 0]]
  /\ sealed = [n \in Nodes |-> FALSE]
  /\ store_sealed = [n \in Nodes |-> FALSE]
  /\ sym_parent = [n \in Nodes |-> n - 1]
  /\ sym_path = [n \in Nodes |-> [i \in 1..(n - 1) |-> "child"]]
  /\ last = NoCall
  /\ ctor = NoCtor
  /\ \E bases \in BaseLists, fields \in FieldLists :
       decl = Decl("class", bases, fields, SchemaOf("", <<>>))

\* class C(*bases): __init_subclass__ runs when the class is created.
CreateClass ==
  /\ decl.pc = "class"
  /\ decl' = [decl EXCEPT !.pc = "created", !.schema = InitSubclass(decl.bases)]
  /\ UNCHANGED <<tree, ctor>>

\* @members(fields) is applied to the class just created.
DeclareMembers ==
  /\ decl.pc = "created"
  /\ decl' = [decl EXCEPT !.pc = "declared",
                          !.schema = Members(decl.schema, decl.fields)]
  /\ UNCHANGED <<tree, ctor>>

SchemaNext == CreateClass \/ DeclareMembers

SchemaSpec == SchemaInit /\ [][SchemaNext]_vars

(***************************************************************************)
(* AttachSpec: the trees Top(Mid(Point)) and Mid(Point); objects are moved *)
(* by rebinding child, and the x of a Point is rebound.                    *)
(***************************************************************************)
AttachNodes == {1, 2, 3, 4, 5}

AttachInit ==
  /\ sym_attributes = [n \in AttachNodes |->
       CASE n = 1 -> [child |-> 2, x |-> 0]
         [] n = 2 -> [child |-> 3]
         [] n = 4 -> [child |-> 5]
         [] OTHER -> [x |-> 0, y |-> 0]]
  /\ sealed = [n \in AttachNodes |-> FALSE]
  /\ store_sealed = [n \in AttachNodes |-> FALSE]
  /\ sym_parent = [n \in AttachNodes |->
       CASE n = 2 -> 1 [] n = 3 -> 2 [] n = 5 -> 4 [] OTHER -> NoNode]
  /\ sym_path = [n \in AttachNodes |->
       CASE n = 2 -> <<"child">>
         [] n = 3 -> <<"child", "child">>
         [] n = 5 -> <<"child">>
         [] OTHER -> <<>>]
  /\ last = NoCall
  /\ ctor = NoCtor
  /\ decl = NoDecl

\* p.rebind(child=c)
AttachChild(p, c) ==
  LET r == SymRebindObject(Cur, p, c)
  IN /\ sym_attributes' = r.h.attrs
     /\ sym_parent' = r.h.parent
     /\ sym_path' = r.h.path
     /\ last' = Call("attach", p, "child", FALSE, sealed[p], r.err,
                     r.log \o NotifyFieldUpdates(r.h, r.updates), r.updates)
     /\ UNCHANGED <<sealed, store_sealed, ctor, decl>>

\* point.rebind(x=v)
RebindLeaf(n, v) ==
  LET r == SymRebind(Cur, n, [p \in {<<"x">>} |-> v])
  IN /\ sym_attributes' = r.attrs
     /\ last' = Call("rebind", n, "", FALSE, sealed[n], r.err,
                     NotifyFieldUpdates(Cur, r.updates), r.updates)
     /\ UNCHANGED <<sealed, store_sealed, sym_parent, sym_path, ctor, decl>>

AttachNext ==
  \/ \E p \in {n \in AttachNodes : ClassOf(n) # "Point"}, c \in AttachNodes :
       AttachChild(p, c)
  \/ \E n \in {m \in AttachNodes : ClassOf(m) = "Point"}, v \in InputVals :
       RebindLeaf(n, v)

AttachSpec == AttachInit /\ [][AttachNext]_vars

(***************************************************************************)
(* Properties of the tree (checked under Spec).                            *)
(***************************************************************************)
\* The names of n's class that Object.__setattr__ routes to the store.
SymbolicNames(n) == {name \in AttrNames : ~IsRegularMember(n, name)}

\* The nodes of the on_change events of a log, in firing order.
OnChangeEvents(log) == SelectSeq(log, LAMBDA e : e.hook = "on_change")
OnBoundEvents(log, n) == SelectSeq(log, LAMBDA e : e.hook = "on_bound" /\ e.node = n)
OnChangeEventsOf(log, n) == SelectSeq(log, LAMBDA e : e.hook = "on_change" /\ e.node = n)

RECURSIVE ChainUp(_)
\* n, its parent, its parent's parent, ... up to the root.
ChainUp(n) == IF n = NoNode THEN <<>> ELSE <<n>> \o ChainUp(sym_parent[n])

\* C1: a rebind whose mapping holds an entry that fails validation raises and
\* applies no entry: every field of every object keeps its value, and no
\* change is reported or notified.
C1_RebindAllOrNothing ==
  /\ \A n \in Nodes : \A b \in Batches(n) :
       (\E p \in DOMAIN b : ~ValueSpecAccepts(b[p])) =>
         LET r == SymRebind(Cur, n, b)
         IN r.err # "" /\ r.attrs = sym_attributes /\ r.updates = {}
  /\ (last.op = "rebind" /\ last.err # "") => (last.ret = {} /\ last.log = <<>>)

\* C1 witness: a rebind has just failed validation on an object where a
\* mapping with a valid, value-changing entry ahead of an invalid one fails too.
C1_Witness ==
  /\ last.op = "rebind" /\ last.err = "ValueError"
  /\ \E b \in Batches(last.target) :
       /\ <<"x">> \in DOMAIN b /\ ValueSpecAccepts(b[<<"x">>])
       /\ b[<<"x">>] # sym_attributes[last.target]["x"]
       /\ \E p \in DOMAIN b : ~ValueSpecAccepts(b[p])
       /\ SymRebind(Cur, last.target, b).err = "ValueError"

Refused(h, n) ==
  {m \in SymbolicNames(n) \X InputVals :
     SetSymbolicAttr(h, n, m[1], m[2]).err = "WritePermissionError"}

\* The rebinds on object n that heap h refuses for want of permission.
RefusedRebinds(h, n) ==
  {b \in Batches(n) : SymRebind(h, n, b).err = "WritePermissionError"}

C4_NotificationOrder ==
  LET oc == OnChangeEvents(last.log)
      notified == [i \in 1..Len(oc) |-> oc[i].node]
  IN /\ \A u \in last.ret : last.ret = {u} => notified = ChainUp(u[1])
     /\ \A i, j \in DOMAIN notified : i # j => notified[i] # notified[j]
     /\ SeqToSet(notified) = UNION {SeqToSet(ChainUp(u[1])) : u \in last.ret}
     /\ \A i, j \in DOMAIN notified :
          (i < j) => ~IsAncestorOrSelf(Cur, notified[i], notified[j])

\* C4 witness: a leaf of the Point changed; Point, Mid and Top were notified.
C4_Witness ==
  /\ \E k \in {"x", "y"} : last.ret = {<<3, k>>}
  /\ Len(OnChangeEvents(last.log)) = 3

\* C5: after a rebind, every object that owns a changed leaf got _on_change
\* exactly once, with all the changed leaves of its subtree under paths
\* relative to it, and _on_bound ran for it exactly once when the class keeps
\* the inherited _on_change.
C5_OneChangePerRebind ==
  (last.op = "rebind" /\ last.ret # {}) =>
    \A o \in {u[1] : u \in last.ret} :
      LET oc == OnChangeEventsOf(last.log, o)
      IN /\ Len(oc) = 1
         /\ oc[1].updates =
              {RelPath(Cur, o, u) : u \in {w \in last.ret : IsAncestorOrSelf(Cur, o, w[1])}}
         /\ {<<k>> : k \in {w[2] : w \in {v \in last.ret : v[1] = o}}} \subseteq oc[1].updates
         /\ ~SubscribesFieldUpdates(o) => Len(OnBoundEvents(last.log, o)) = 1

\* C5 witness: one rebind changed both x and y of the Point, whose class
\* keeps the inherited _on_change.
C5_Witness ==
  /\ last.op = "rebind"
  /\ {<<3, "x">>, <<3, "y">>} \subseteq last.ret
  /\ ~SubscribesFieldUpdates(3)
  /\ Len(OnBoundEvents(last.log, 3)) = 1

\* The key under which n is held by its parent.
KeyInParent(n) == sym_path[n][Len(sym_path[n])]

\* C6: an object notified after its child receives every leaf the child
\* received, under the child's path prefixed by the child's key, next to the
\* changed leaves of its own store; nothing else.
C6_PathsRelativeToNotified ==
  \A i \in DOMAIN OnChangeEvents(last.log) :
    LET oc == OnChangeEvents(last.log)
        e == oc[i]
        own == {<<u[2]>> : u \in {w \in last.ret : w[1] = e.node}}
        kids == {j \in DOMAIN oc : sym_parent[oc[j].node] = e.node}
    IN /\ e.updates =
            own \cup UNION {{<<KeyInParent(oc[j].node)>> \o q : q \in oc[j].updates} :
                              j \in kids}
       /\ \A j \in kids : j < i
       /\ e.updates # {}

\* C6 witness: a change of the Point reached Top under child.child.<key>.
C6_Witness ==
  \E i \in DOMAIN last.log :
    /\ last.log[i].hook = "on_change" /\ last.log[i].node = 1
    /\ \E k \in {"x", "y"} : <<"child", "child", k>> \in last.log[i].updates

(***************************************************************************)
(* Properties of construction and JSON conversion (checked under CtorSpec).*)
(***************************************************************************)
\* The keyword resolves against the schema of c: a constant key of that name,
\* or a pattern key that matches it.
Resolves(c, name) == \E f \in SeqToSet(SchemaFields(c)) : KeyMatches(f, name)

Unresolved(c, kw) == {name \in DOMAIN kw : ~Resolves(c, name)}

\* Two calls had the same outcome: the same error, or equal objects.
SameOutcome(a, b) ==
  /\ a.err = b.err
  /\ a.keys = b.keys
  /\ a.has_store = b.has_store
  /\ a.has_store => SymEq(a, b)

\* The call was refused because of the type key, and of nothing else.
RefusedForTypeKey(r) ==
  /\ r.err = "TypeError: unexpected keyword"
  /\ r.keys = <<TypeNameKey>>
  /\ ~r.has_store

C8_FromJsonWithOrWithoutTypeKey ==
  ctor.pc = "loaded" => SameOutcome(ctor.back, ctor.res)

\* C8, amended: from_json of a mapping keyed by field name, without the type
\* key, ends as the constructor does on the same keys as keywords (an equal
\* object or the same error); the same mapping carrying the type key is
\* refused with an unexpected-keyword error that names the type key, next to
\* whatever other keys the schema does not resolve.
C8_FromJsonAsKeywords ==
  /\ (ctor.pc = "loaded" /\ TypeNameKey \notin DOMAIN ctor.json) =>
       SameOutcome(ctor.back, ctor.res)
  /\ (ctor.pc = "loaded" /\ TypeNameKey \in DOMAIN ctor.json
        /\ ctor.allow_partial # "NotBool") =>
       /\ ctor.back.err = "TypeError: unexpected keyword"
       /\ SeqToSet(ctor.back.keys) =
            {TypeNameKey} \cup Unresolved(ctor.cls, ctor.kwargs)
       /\ ~ctor.back.has_store

\* from_json built the object the keywords build.
C8_Witness ==
  /\ ctor.pc = "loaded"
  /\ TypeNameKey \notin DOMAIN ctor.json
  /\ DOMAIN ctor.json = {"x", "y"}
  /\ ctor.json["x"] # ctor.json["y"]
  /\ ctor.back.err = ""
  /\ ctor.res.err = ""
  /\ SymEq(ctor.back, ctor.res)
  /\ ctor.back.store["x"] = ctor.json["x"]

\* C9: a call (allow_partial being a bool, as its annotation requires) with a
\* keyword the schema does not resolve fails with the unexpected-keyword
\* error, the error names exactly the unresolved keywords, and the object has
\* no attribute store.
C9_UnexpectedKeyword ==
  (ctor.pc = "made" /\ ctor.allow_partial # "NotBool"
     /\ Unresolved(ctor.cls, ctor.kwargs) # {}) =>
    /\ ctor.res.err = "TypeError: unexpected keyword"
    /\ SeqToSet(ctor.res.keys) = Unresolved(ctor.cls, ctor.kwargs)
    /\ Len(ctor.res.keys) = Cardinality(Unresolved(ctor.cls, ctor.kwargs))
    /\ ~ctor.res.has_store

\* A call with one resolved and one unresolved keyword, next to a pattern key.
C9_Witness ==
  /\ ctor.pc = "made"
  /\ ctor.cls = "Bag"
  /\ DOMAIN ctor.kwargs = {"foo", "z"}
  /\ ctor.res.err = "TypeError: unexpected keyword"
  /\ ctor.res.keys = <<"z">>

\* The fields the positional arguments of the call fill: the leading names of
\* init_arg_list, one per argument.
FilledByPosition(c, args) ==
  {InitArgList(c)[i] : i \in (1..Len(args)) \cap DOMAIN InitArgList(c)}

\* C10: a call in which a keyword names a field that a positional argument
\* fills never yields an object; when nothing the constructor checks earlier
\* is wrong (allow_partial a bool, every keyword resolved, not too many
\* positional arguments) it fails with the multiple-values error, which names
\* one such field, the first in keyword order, with the positional value and
\* the keyword value in that order.
C10_PositionalKeywordConflict ==
  LET both == FilledByPosition(ctor.cls, ctor.args) \cap DOMAIN ctor.kwargs
  IN (ctor.pc = "made" /\ both # {}) =>
       /\ ctor.res.err # ""
       /\ ~ctor.res.has_store
       /\ (ctor.allow_partial # "NotBool"
             /\ Unresolved(ctor.cls, ctor.kwargs) = {}
             /\ Len(ctor.args) <= Len(InitArgList(ctor.cls))) =>
            /\ ctor.res.err = "TypeError: multiple values"
            /\ Len(ctor.res.keys) = 1
            /\ ctor.res.keys[1] \in both
            /\ \A k \in both :
                 IndexOf(KwOrder, ctor.res.keys[1]) <= IndexOf(KwOrder, k)
            /\ ctor.res.values =
                 <<ctor.args[IndexOf(InitArgList(ctor.cls), ctor.res.keys[1])],
                   ctor.kwargs[ctor.res.keys[1]]>>

\* y was given as the second positional argument and as a keyword, with
\* different values.
C10_Witness ==
  /\ ctor.pc = "made"
  /\ ctor.cls = "Point"
  /\ Len(ctor.args) = 2
  /\ DOMAIN ctor.kwargs = {"y"}
  /\ ctor.res.err = "TypeError: multiple values"
  /\ ctor.res.keys = <<"y">>
  /\ ctor.res.values = <<IntV(0), IntV(1)>>

\* The required fields of class c: constant key, no default.
RequiredFields(c) ==
  {k \in SeqToSet(SchemaFields(c)) : IsConstKey(k) /\ ~HasDefault(c, k)}

\* The last name of the argument list is variadic.
EndsVariadic(c) ==
  InitArgList(c) # <<>> /\ StartsWithStar(InitArgList(c)[Len(InitArgList(c))])

\* Nothing that the constructor checks before it looks for missing fields is
\* wrong with the call: allow_partial is a bool, every keyword resolves, the
\* positional arguments fit the argument list, no field is given twice.
WellFormedCall ==
  /\ ctor.allow_partial # "NotBool"
  /\ Unresolved(ctor.cls, ctor.kwargs) = {}
  /\ ctor.args # <<>> => SchemaFields(ctor.cls) # <<>>
  /\ (EndsVariadic(ctor.cls) \/ Len(ctor.args) <= Len(InitArgList(ctor.cls)))
  /\ FilledByPosition(ctor.cls, ctor.args) \cap DOMAIN ctor.kwargs = {}

\* The required fields the call assigns neither by position nor by keyword.
LeftOut ==
  RequiredFields(ctor.cls)
    \ (FilledByPosition(ctor.cls, ctor.args) \cup DOMAIN ctor.kwargs)

\* Every value the call passes is accepted by the field it goes to.
ValuesAccepted ==
  /\ \A i \in DOMAIN ctor.args : ValueSpecAccepts(ctor.args[i].v)
  /\ \A k \in DOMAIN ctor.kwargs : ValueSpecAccepts(ctor.kwargs[k].v)

\* C11: a call with allow_partial=False that leaves required fields
\* unassigned (and is otherwise well formed) fails with one missing-required
\* error that lists every such field, each once, and builds no store; the
\* same arguments through partial() build an object whose missing-values
\* query reports exactly those fields.
C11_MissingRequired ==
  /\ (ctor.pc \in {"made", "partial"} /\ ctor.allow_partial = "False"
        /\ WellFormedCall /\ LeftOut # {}) =>
       /\ ctor.res.err = "TypeError: missing required"
       /\ SeqToSet(ctor.res.keys) = LeftOut
       /\ Len(ctor.res.keys) = Cardinality(LeftOut)
       /\ ~ctor.res.has_store
  /\ (ctor.pc = "partial" /\ WellFormedCall /\ ValuesAccepted) =>
       /\ ctor.back.err = ""
       /\ ctor.back.has_store
       /\ ctor.back.allow_partial
       /\ SymMissing(ctor.back) = LeftOut

\* Pair() failed listing x and y; Pair.partial() reports both as missing.
C11_Witness ==
  /\ ctor.pc = "partial"
  /\ ctor.cls = "Pair"
  /\ ctor.args = <<>> /\ DOMAIN ctor.kwargs = {}
  /\ ctor.res.err = "TypeError: missing required"
  /\ ctor.res.keys = <<"x", "y">>
  /\ ctor.back.err = ""
  /\ SymMissing(ctor.back) = {"x", "y"}

\* The number of names of the argument list that are not variadic.
NumNamed(c) ==
  IF EndsVariadic(c) THEN Len(InitArgList(c)) - 1 ELSE Len(InitArgList(c))

\* C12: in the object a call builds, the field of the i-th name of the
\* argument list holds the i-th positional argument, and when the list ends
\* with a variadic name and positional arguments were given, the variadic
\* field holds the arguments beyond the named ones, all of them, in the order
\* given.
C12_PositionalBinding ==
  (ctor.pc = "made" /\ ctor.res.err = "") =>
    LET c == ctor.cls
        named == NumNamed(c)
    IN /\ \A i \in DOMAIN ctor.args :
            i <= named => ValEq(ctor.res.store[InitArgList(c)[i]], ctor.args[i])
       /\ (EndsVariadic(c) /\ ctor.args # <<>>) =>
            LET held == ctor.res.store[AfterStar(InitArgList(c)[Len(InitArgList(c))])]
            IN /\ held.t = "list"
               /\ Len(held.v) = (IF Len(ctor.args) > named
                                   THEN Len(ctor.args) - named ELSE 0)
               /\ \A j \in DOMAIN held.v : held.v[j] = ctor.args[named + j]
       /\ ~EndsVariadic(c) => Len(ctor.args) <= named

\* Seq(1, 0) holds [1, 0]; the two arguments differ, so the order shows.
C12_Witness ==
  /\ ctor.pc = "made"
  /\ ctor.cls = "Seq"
  /\ ctor.args = <<IntV(1), IntV(0)>>
  /\ ctor.res.err = ""
  /\ ctor.res.store["rest"].v = <<IntV(1), IntV(0)>>

\* The step of a construction at which _on_init ran.
OnInitStep(r) == r.steps[CHOOSE i \in DOMAIN r.steps : r.steps[i].step = "on_init"]

OneField(name, v) == [p \in {<<name>>} |-> v]

First == Ref(1, ctor.res)
Second == Ref(2, ctor.back)

\* The stores of two objects hold the same keys with the same values.
SameStores(a, b) ==
  /\ DOMAIN a.store = DOMAIN b.store
  /\ \A k \in DOMAIN a.store : a.store[k].t = b.store[k].t /\ a.store[k].v = b.store[k].v

\* C16: an object of a class under symbolic comparison equals itself, and
\* equals another object exactly when the two have the same class and their
\* stores are equal; an object of a subclass never equals an object of its
\* base class, whatever the field values.
C16_SymbolicEquality ==
  (ctor.pc = "other" /\ ctor.back.err = "") =>
    /\ use_symbolic_comparison(ctor.cls) =>
         /\ ObjectEq(First, First)
         /\ ObjectEq(First, Second) <=>
              (ctor.res.cls = ctor.back.cls /\ SameStores(ctor.res, ctor.back))
    /\ use_symbolic_comparison(ctor.back.cls) =>
         /\ ObjectEq(Second, Second)
         /\ ObjectEq(Second, First) <=>
              (ctor.res.cls = ctor.back.cls /\ SameStores(ctor.res, ctor.back))
    /\ {ctor.res.cls, ctor.back.cls} = {"Point", "SubPoint"} =>
         (~ObjectEq(First, Second) /\ ~ObjectEq(Second, First))

\* Point(x=1) and SubPoint(x=1): the same values, not equal.
C16_Witness ==
  /\ ctor.pc = "other" /\ ctor.back.err = ""
  /\ ctor.res.cls = "Point" /\ ctor.back.cls = "SubPoint"
  /\ ctor.res.store["x"] = IntV(1)
  /\ SameStores(ctor.res, ctor.back)
  /\ ~ObjectEq(First, Second)

(***************************************************************************)
(* Properties of the change record (checked under Spec).                   *)
(***************************************************************************)
\* The value of the leaf at relative path p under n.
LeafAt(attrs, n, p) == attrs[Owner(Cur, n, p)][LeafKey(p)]

\* C19: a rebind that succeeds returns one record for every leaf of its
\* mapping whose new value differs from the value held, with the path, the
\* old value and the new value, and no other record; afterwards the leaves of
\* the mapping hold the mapped values and every other leaf of the tree holds
\* what it held; a leaf mapped to the value it holds already has no record.
C19_ChangeRecord ==
  /\ \A n \in Nodes : \A b \in Batches(n) :
       LET r == SymRebind(Cur, n, b)
       IN r.err = "" =>
            /\ FieldUpdates(Cur, n, r) =
                 {[path |-> p, old_value |-> LeafAt(sym_attributes, n, p),
                   new_value |-> b[p]] :
                    p \in {q \in DOMAIN b : b[q] # LeafAt(sym_attributes, n, q)}}
            /\ \A p \in DOMAIN b : LeafAt(r.attrs, n, p) = b[p]
            /\ \A m \in Nodes : \A k \in DOMAIN sym_attributes[m] :
                 (\A p \in DOMAIN b : <<Owner(Cur, n, p), LeafKey(p)>> # <<m, k>>)
                   => r.attrs[m][k] = sym_attributes[m][k]
            /\ \A m \in Nodes : DOMAIN r.attrs[m] = DOMAIN sym_attributes[m]
  /\ (last.op = "rebind" /\ last.err = "") =>
       \A u \in last.ret : u[2] \in DOMAIN sym_attributes[u[1]]

\* A rebind changed one leaf, and a mapping of two entries that would change
\* one leaf and leave the other as it is can follow.
C19_Witness ==
  /\ last.op = "rebind" /\ last.err = "" /\ Cardinality(last.ret) = 1
  /\ \E b \in Batches(3) :
       /\ DOMAIN b = {<<"x">>, <<"y">>}
       /\ b[<<"x">>] # sym_attributes[3]["x"]
       /\ b[<<"y">>] = sym_attributes[3]["y"]
       /\ SymRebind(Cur, 3, b).err = ""
       /\ Cardinality(FieldUpdates(Cur, 3, SymRebind(Cur, 3, b))) = 1

(***************************************************************************)
(* Properties of class creation (checked under SchemaSpec).                *)
(***************************************************************************)
\* The bases of the class statement that carry a schema, in its order.
SymbolicBases == SelectSeq(decl.bases, HasSchema)

\* The keys the class inherits.
InheritedKeys == UNION {FieldKeys(BaseSchema(b)) : b \in SeqToSet(SymbolicBases)}

\* The position of key k in the merged schema.
PosOf(k) == CHOOSE i \in DOMAIN decl.schema.fields : decl.schema.fields[i].key = k

\* C17: when the declared fields override no inherited field, the schema of
\* the class holds every field of every base with the base's own value spec,
\* the fields of each base in that base's order, the fields a later base
\* brings in behind those of the bases before it, and the declared fields
\* behind all inherited ones in the order declared; it holds nothing else.
C17_SchemaInheritance ==
  (decl.pc = "declared" /\ decl.schema.err = ""
     /\ FieldKeys(decl.fields) \cap InheritedKeys = {}) =>
    LET merged == decl.schema.fields
        inherited == Len(merged) - Len(decl.fields)
    IN /\ \A b \in SeqToSet(SymbolicBases) :
            /\ \A i \in DOMAIN BaseSchema(b) :
                 \E j \in DOMAIN merged : merged[j] = BaseSchema(b)[i]
            /\ SelectSeq(merged, LAMBDA f : f.key \in FieldKeys(BaseSchema(b)))
                 = BaseSchema(b)
       /\ \A i, j \in DOMAIN SymbolicBases : i < j =>
            \A kx \in FieldKeys(BaseSchema(SymbolicBases[i])) :
              \A ky \in FieldKeys(BaseSchema(SymbolicBases[j])) :
                (\A h \in 1..(j - 1) : ky \notin FieldKeys(BaseSchema(SymbolicBases[h])))
                  => PosOf(kx) < PosOf(ky)
       /\ inherited = Cardinality(InheritedKeys)
       /\ \A i \in 1..inherited : merged[i].key \in InheritedKeys
       /\ \A i \in DOMAIN decl.fields : merged[inherited + i] = decl.fields[i]
       /\ \A i, j \in DOMAIN merged : i # j => merged[i].key # merged[j].key

\* class C(A, B) with one new field n: the schema is a, b, c, n.
C17_Witness ==
  /\ decl.pc = "declared" /\ decl.schema.err = ""
  /\ decl.bases = <<"A", "B">>
  /\ Len(decl.fields) = 1 /\ decl.fields[1].key = "n"
  /\ [i \in DOMAIN decl.schema.fields |-> decl.schema.fields[i].key]
       = <<"a", "b", "c", "n">>

(***************************************************************************)
(* Properties of the position in the tree (checked under AttachSpec).      *)
(***************************************************************************)
\* The objects whose store holds B under the key child.
HoldersOf(B) ==
  {A \in DOMAIN sym_attributes :
     "child" \in DOMAIN sym_attributes[A] /\ sym_attributes[A]["child"] = B}

RECURSIVE PathFromRoot(_, _)
\* The keys met going from n up to its root, root first; at most d steps.
PathFromRoot(n, d) ==
  IF d = 0 \/ HoldersOf(n) = {} THEN <<>>
  ELSE PathFromRoot(CHOOSE A \in HoldersOf(n) : TRUE, d - 1) \o <<"child">>

\* C18: whatever was rebound or moved, every object B that the store of an
\* object A holds under key k has the path of A extended by k; with it, the
\* path of every object is the sequence of keys that leads to it from the
\* root of its tree, at any depth.
C18_PathInvariant ==
  /\ \A A \in DOMAIN sym_attributes : \A k \in DOMAIN sym_attributes[A] :
       (k = "child" /\ sym_attributes[A][k] # NoNode) =>
         sym_path[sym_attributes[A][k]] = sym_path[A] \o <<k>>
  /\ \A n \in DOMAIN sym_attributes :
       sym_path[n] = PathFromRoot(n, Cardinality(DOMAIN sym_attributes))

\* The second Mid, with its Point, was attached to the Top: the Point, two
\* levels down, has the path child.child, and the Mid replaced is a root.
C18_Witness ==
  /\ last.op = "attach" /\ last.err = "" /\ last.target = 1
  /\ sym_attributes[1]["child"] = 4
  /\ sym_attributes[4]["child"] = 5
  /\ sym_path[5] = <<"child", "child">>
  /\ sym_path[2] = <<>>

\* C20: every object has at most one holder; an object that a store holds
\* has that holder as its parent, an object that no store holds has none;
\* after an object was given to a new parent, the store that held it before
\* holds it no more.
C20_TreeShape ==
  /\ \A B \in DOMAIN sym_attributes :
       /\ Cardinality(HoldersOf(B)) <= 1
       /\ \A A \in HoldersOf(B) : sym_parent[B] = A
       /\ HoldersOf(B) = {} => sym_parent[B] = NoNode
  /\ (last.op = "attach" /\ last.err = "" /\ last.ret # {}) =>
       LET B == sym_attributes[last.target]["child"]
       IN HoldersOf(B) = {last.target} /\ sym_parent[B] = last.target

\* The Point of the second tree was given to the Mid of the first: the Mid
\* that held it holds nothing, the Point replaced has no parent.
C20_Witness ==
  /\ last.op = "attach" /\ last.err = "" /\ last.target = 2
  /\ sym_attributes[2]["child"] = 5
  /\ sym_attributes[4]["child"] = NoNode
  /\ sym_parent[5] = 2
  /\ sym_parent[3] = NoNode


(***************************************************************************)
(* Properties of the position hooks (checked under AttachSpec).            *)
(***************************************************************************)
\* The paths and parents handed to sym_setpath and sym_setparent.
TryPaths == {<<>>, <<"child">>, <<"child", "child">>, <<"k">>}
TryParents == AttachNodes \cup {NoNode}

HookEventsOf(log, k, n) == SelectSeq(log, LAMBDA e : e.hook = k /\ e.node = n)

\* C21: in every reachable state, sym_setpath of any object to any path runs
\* on_path_change once on each object whose path changed and on no other,
\* sym_setparent runs on_parent_change exactly when the parent given is
\* another object than the current one, and neither runs on_change or
\* on_bound or alters a field value.
C21_PositionHooks ==
  \A n \in DOMAIN sym_attributes :
    /\ \A path \in TryPaths :
         LET r == SymSetPath(Cur, n, path)
         IN /\ r.h.attrs = sym_attributes
            /\ r.h.parent = sym_parent
            /\ \A i \in DOMAIN r.log : r.log[i].hook = "on_path_change"
            /\ \A m \in DOMAIN sym_attributes :
                 Len(HookEventsOf(r.log, "on_path_change", m)) =
                   IF r.h.path[m] # sym_path[m] THEN 1 ELSE 0
    /\ \A parent \in TryParents :
         LET r == SymSetParent(Cur, n, parent)
         IN /\ r.h.attrs = sym_attributes
            /\ r.h.path = sym_path
            /\ r.log = IF sym_parent[n] # parent
                         THEN <<Event("on_parent_change", n, {})>> ELSE <<>>

\* After a move, an object with a child whose path changes with its own, and
\* calls with the current path and the current parent that run no hook.
C21_Witness ==
  /\ last.op = "attach" /\ last.err = ""
  /\ \E i, j \in DOMAIN last.log :
       last.log[i].hook = "on_path_change" /\ last.log[j].hook = "on_parent_change"
  /\ \E n \in DOMAIN sym_attributes :
       /\ ChildOf(Cur, n) # NoNode
       /\ sym_parent[n] # NoNode
       /\ Len(SymSetPath(Cur, n, <<"k">>).log) = 2
       /\ SymSetPath(Cur, n, sym_path[n]).log = <<>>
       /\ SymSetParent(Cur, n, sym_parent[n]).log = <<>>
       /\ SymSetParent(Cur, n, NoNode).log # <<>>


(***************************************************************************)
(* Properties of the seal over the subtree (checked under Spec).           *)
(***************************************************************************)
\* The objects of the subtree of n: n and the objects below it.
Subtree(h, n) == {d \in DOMAIN h.attrs : IsAncestorOrSelf(h, n, d)}

\* C22: in every reachable state, seal() on any object gives a tree in which
\* the object and every object below it are sealed, object and store, so that
\* assignment to a declared field of any of them and any rebind on any of
\* them raise WritePermissionError and change nothing; and after a seal()
\* call the subtree of its target is in that state.
C22_SealCoversSubtree ==
  /\ \A n \in Nodes :
       LET h == ObjectSeal(Cur, n, TRUE)
       IN /\ h.attrs = sym_attributes
          /\ \A d \in Subtree(Cur, n) :
               /\ h.sealed[d] /\ h.store_sealed[d]
               /\ \A name \in SymbolicNames(d), v \in InputVals :
                    LET r == SetSymbolicAttr(h, d, name, v)
                    IN r.err = "WritePermissionError" /\ r.attrs = h.attrs
               /\ \A b \in Batches(d) :
                    LET r == SymRebind(h, d, b)
                    IN r.err = "WritePermissionError" /\ r.attrs = h.attrs
  /\ (last.op = "seal" /\ last.flag) =>
       \A d \in Subtree(Cur, last.target) : sealed[d] /\ store_sealed[d]

\* seal() was called on an unsealed object that has objects below it, one of
\* them of a class that allows assignment, none of them sealed before: the
\* value that an assignment to the descendant would have written is refused.
C22_Witness ==
  /\ last.op = "seal" /\ last.flag /\ ~last.before
  /\ \E d \in Subtree(Cur, last.target) \ {last.target} :
       /\ allow_symbolic_assignment(ClassOf(d))
       /\ sealed[d]
       /\ \E name \in SymbolicNames(d), v \in InputVals :
            /\ ValueSpecAccepts(v)
            /\ v # sym_attributes[d][name]
            /\ SetSymbolicAttr(Cur, d, name, v).err = "WritePermissionError"
            /\ SetSymbolicAttr(ObjectSeal(Cur, d, FALSE), d, name, v).err = ""


(***************************************************************************)
(* Properties of hashing (checked under AttachSpec).                       *)
(***************************************************************************)
\* C23: in every reachable state, two objects of a class under symbolic
\* comparison that are equal have the same hash, whatever rebinds and moves
\* brought each of them to the values it holds.
C23_EqualObjectsHashEqual ==
  \A a, b \in DOMAIN sym_attributes :
    (/\ use_symbolic_comparison(ClassOf(a))
     /\ ClassOf(a) = ClassOf(b)
     /\ TreeObjectEq(Cur, a, b))
      => ObjectHash(Cur, a) = ObjectHash(Cur, b)

\* After a rebind, the two Points hold x = 1 and the two Mids hold one Point
\* each: the Points are equal and so are the Mids, each pair with one hash,
\* and the hash of a Point that holds other values is another.
C23_Witness ==
  /\ last.op = "rebind" /\ last.err = "" /\ last.ret # {}
  /\ sym_attributes[3]["x"] = 1 /\ sym_attributes[5]["x"] = 1
  /\ TreeObjectEq(Cur, 3, 5) /\ ObjectHash(Cur, 3) = ObjectHash(Cur, 5)
  /\ ChildOf(Cur, 2) # NoNode /\ ChildOf(Cur, 4) # NoNode
  /\ TreeObjectEq(Cur, 2, 4) /\ ObjectHash(Cur, 2) = ObjectHash(Cur, 4)
  /\ ObjectHash(Cur, 3) # ObjectHash([Cur EXCEPT !.attrs[3]["x"] = 0], 3)


(***************************************************************************)
(* Properties of ordinary attribute assignment (checked under Spec).       *)
(***************************************************************************)
\* The name is no declared field of the object's class, or starts with an
\* underscore, or the class has symbolic attributes disabled.
OrdinaryName(n, name) ==
  \/ ~HasField(ClassOf(n), name)
  \/ StartsWithUnderscore(name)
  \/ ~allow_symbolic_attribute(ClassOf(n))

\* C24: every assignment obj.name = value with such a name succeeds, sealed
\* or not and whatever the class's allow_symbolic_assignment, leaves every
\* attribute store, seal flag, parent and path as it was, and runs no hook.
C24_OrdinaryAssignment ==
  [][(last'.op = "setattr" /\ OrdinaryName(last'.target, last'.name)) =>
       /\ last'.err = ""
       /\ last'.log = <<>>
       /\ last'.ret = {}
       /\ sym_attributes' = sym_attributes
       /\ sealed' = sealed /\ store_sealed' = store_sealed
       /\ sym_parent' = sym_parent /\ sym_path' = sym_path]_vars

\* The field child was assigned on a sealed Mid, whose class has symbolic
\* attributes disabled: the assignment went through as an ordinary one, while
\* the same assignment made as a symbolic one would have been refused.
C24_Witness ==
  /\ last.op = "setattr" /\ last.name = "child" /\ last.before
  /\ ~allow_symbolic_attribute(ClassOf(last.target))
  /\ HasField(ClassOf(last.target), last.name)
  /\ sealed[last.target]
  /\ last.err = "" /\ last.log = <<>>
  /\ \A v \in InputVals :
       SetSymbolicAttr(Cur, last.target, last.name, v).err = "WritePermissionError"


(***************************************************************************)
(* Properties of the construction errors (checked under CtorSpec).         *)
(***************************************************************************)
\* What is wrong with the call, each taken by itself.
NotBoolGiven == ctor.allow_partial = "NotBool"
UnexpectedGiven == Unresolved(ctor.cls, ctor.kwargs) # {}
NoFieldsForArgs == ctor.args # <<>> /\ SchemaFields(ctor.cls) = <<>>
TooManyArgs ==
  /\ ctor.args # <<>>
  /\ ~EndsVariadic(ctor.cls)
  /\ Len(ctor.args) > Len(InitArgList(ctor.cls))
GivenTwice == FilledByPosition(ctor.cls, ctor.args) \cap DOMAIN ctor.kwargs # {}
RequiredLeftOut == ctor.allow_partial = "False" /\ LeftOut # {}

\* How many of the five kinds of error apply to the call.
KindsWrong ==
  Cardinality({i \in 1..5 :
                 \/ i = 1 /\ NotBoolGiven
                 \/ i = 2 /\ UnexpectedGiven
                 \/ i = 3 /\ (NoFieldsForArgs \/ TooManyArgs)
                 \/ i = 4 /\ GivenTwice
                 \/ i = 5 /\ RequiredLeftOut})

\* C25: the error of a constructor call is the first that applies of: a
\* non-boolean allow_partial, unexpected keywords, positional arguments to a
\* class without fields or too many positional arguments, a field given by
\* position and by keyword, missing required fields; when none applies the
\* call yields an object or fails on a value.
C25_ErrorPrecedence ==
  ctor.pc = "made" =>
    LET e == ctor.res.err
    IN IF NotBoolGiven THEN e = "TypeError: allow_partial"
       ELSE IF UnexpectedGiven THEN e = "TypeError: unexpected keyword"
       ELSE IF NoFieldsForArgs THEN e = "TypeError: takes no arguments"
       ELSE IF TooManyArgs THEN e = "TypeError: too many positional arguments"
       ELSE IF GivenTwice THEN e = "TypeError: multiple values"
       ELSE IF RequiredLeftOut THEN e = "TypeError: missing required"
       ELSE e \in {"", "ValueError"}

\* Bag(1, 2, x=0): too many positional arguments and x given twice; the
\* error is the one about the positional arguments.
C25_Witness ==
  /\ ctor.pc = "made"
  /\ ~NotBoolGiven /\ ~UnexpectedGiven
  /\ TooManyArgs /\ GivenTwice
  /\ KindsWrong >= 2
  /\ ctor.res.err = "TypeError: too many positional arguments"


(***************************************************************************)
(* Properties of the seal flags (checked under CtorSpec).                  *)
(***************************************************************************)
\* C26: an object just built has the same sealed flag as its store, and that
\* flag is the sealed argument if one was given and otherwise set exactly
\* when the class has allow_symbolic_mutation off; after every seal(True) or
\* seal(False) in a sequence of such calls, the object and its store both
\* have the flag of the last call, and the store holds what it held.
C26_SealFlagsAgree ==
  /\ (ctor.pc = "made" /\ ctor.res.err = "") =>
       /\ ctor.res.sealed = ctor.res.store_sealed
       /\ ctor.sealed = "None" =>
            (ctor.res.sealed <=> ~allow_symbolic_mutation(ctor.cls))
       /\ ctor.sealed # "None" => (ctor.res.sealed <=> ctor.sealed = "True")
  /\ ctor.pc \in SealPcs =>
       /\ ctor.back.sealed = ctor.back.store_sealed
       /\ ctor.back.sealed <=> ctor.pc = "seal(True)"
       /\ ctor.back.store = ctor.res.store

\* A Bag, whose class has allow_symbolic_mutation off, was built without a
\* sealed argument and came out sealed, and a later seal(False) unsealed the
\* object and its store.
C26_Witness ==
  /\ ctor.pc = "seal(False)"
  /\ ctor.sealed = "None"
  /\ ~allow_symbolic_mutation(ctor.cls)
  /\ ctor.res.sealed /\ ctor.res.store_sealed
  /\ ~ctor.back.sealed /\ ~ctor.back.store_sealed

====
